---- MODULE Spec2Model ----
(***************************************************************************)
(* GcsResourceReportPoller (ray/gcs/gcs_server/gcs_resource_report_poller) *)
(* as a state machine: the node registry, the deque of PullState objects,  *)
(* the in-flight counter, the requests handed to request_report_ and the   *)
(* handlers posted onto polling_service_.                                  *)
(***************************************************************************)
EXTENDS Integers, Sequences, FiniteSets, TLC

\* ------------------------------------------------------------------ bounds
\* Node identifiers the membership source may announce. They are opaque to the
\* poller, so an identifier never announced before takes the first unused name.
NodeOrder == <<"A", "B", "C">>
NodeIds == {NodeOrder[i] : i \in DOMAIN NodeOrder}
\* PullState objects created (one per successful HandleNodeAdded).
MaxPullStates == 2
\* Largest value get_current_time_milli_ returns.
MaxClock == 1
\* Largest configured gcs_max_concurrent_resource_pulls.
MaxPulls == 2
\* Configured gcs_resource_report_poll_period_ms, in clock units.
PollPeriod == 1

\* next_pull_time of a PullState that needs a full report.
Unset == -1

Statuses == {"ok", "unchanged", "error"}

VARIABLES
    max_concurrent_pulls,  \* max_concurrent_pulls_ (fixed at construction)
    nodes,                 \* nodes_: node id -> PullState object
    to_pull_queue,         \* to_pull_queue_: deque of PullState objects
    inflight_pulls,        \* inflight_pulls_
    states,                \* the PullState objects, by identity (1..Len)
    requests,              \* request_report_ calls whose callback has not run,
                           \* each with the full-report flag passed and the
                           \* state of mutex_ at the call
    received,              \* posted NodeResourceReportReceived handlers, each
                           \* with the status its pull completed with and the
                           \* Report Sink calls made for the pull so far
    try_posted,            \* a posted TryPullResourceReport handler has not run
                           \* yet (further posts coalesce with it: the 10 ms
                           \* timer lets TryPullResourceReport run at any point)
    now,                   \* get_current_time_milli_()
    fatal,                 \* a RAY_CHECK failed: the process has aborted
    \* history (read by the properties only)
    last,                  \* node id -> status and object of the last handled
                           \* completion of the object registered for it,
                           \* until the node's next dispatch or removal
    pulled,                \* node ids ever handed to the transport
    fresh,                 \* node ids added and not dispatched since
    stale_queued,          \* objects queued when their node was removed, the
                           \* node not added again since
    discarded              \* objects dropped by the lazy-deletion pop

vars == <<max_concurrent_pulls, nodes, to_pull_queue, inflight_pulls, states,
          requests, received, try_posted, now, fatal,
          last, pulled, fresh, stale_queued, discarded>>

\* ----------------------------------------------------------------- helpers
Min(a, b) == IF a < b THEN a ELSE b

Range(s) == {s[i] : i \in DOMAIN s}

NoResult == [status |-> "none", state |-> 0]

\* Node identifiers announced so far.
Seen == {states[r].node_id : r \in DOMAIN states}

\* node_id was announced before or is the first unused name.
Announceable(node_id) ==
    \E i \in DOMAIN NodeOrder :
        /\ NodeOrder[i] = node_id
        /\ \A j \in 1..(i - 1) : NodeOrder[j] \in Seen

\* The PullState objects whose node_id is n.
StatesOf(n) == {r \in DOMAIN states : states[r].node_id = n}

\* Objects handed to the transport whose completion is not yet handled.
InFlight == {q.state : q \in requests} \cup {t.state : t \in received}

\* !nodes_.count(node_id), negated.
InRegistry(reg, node_id) == node_id \in DOMAIN reg

\* Mutant: an object is due only after its next_pull_time has passed.
IsDue_Late(cur_time, next_pull_time) == cur_time > next_pull_time

\* cur_time < to_pull->next_pull_time, negated.
IsDue(cur_time, next_pull_time) == ~(cur_time < next_pull_time)

\* Mutant: the budget test lets one pull too many through.
HasBudget_OffByOne(inflight) == inflight <= max_concurrent_pulls

\* inflight_pulls_ < max_concurrent_pulls_
HasBudget(inflight) == inflight < max_concurrent_pulls

\* Mutant: the full-report flag is inverted.
InitialReport_Inverted(next_pull_time) == next_pull_time # Unset

\* state->next_pull_time == -1 ? true : false
InitialReport(next_pull_time) == next_pull_time = Unset

\* The next_pull_time NodeResourceReportReceived writes.
NextPullTime(need_full_report, cur_time) ==
    IF need_full_report THEN Unset ELSE cur_time + PollPeriod

\* need_full_report as the completion lambda computes it from the status.
NeedFullReport(status) ==
    IF status = "ok" THEN FALSE
    ELSE IF status = "unchanged" THEN FALSE ELSE TRUE

\* Execution contexts: the loop thread that runs polling_service_, and the
\* context on which the transport runs the callback given to request_report_.
LoopContext == "polling_service"
TransportContext == "request_report callback"

\* Mutant: the report is forwarded whatever the status.
HandleResourceReport_Always(status, context) == <<context>>

\* The calls of handle_resource_report_ the completion lambda makes, each noted
\* with the context it is made on: one if status.ok(), none otherwise.
HandleResourceReport(status, context) ==
    IF status = "ok" THEN <<context>> ELSE <<>>

\* Mutant: a new node is pushed to the back of the queue.
PushFront_Back(queue, state) == Append(queue, state)

\* to_pull_queue_.push_front(state)
PushFront(queue, state) == <<state>> \o queue

\* Mutant: a completed pull is pushed to the front of the queue.
PushBack_Front(queue, state) == <<state>> \o queue

\* to_pull_queue_.push_back(state)
PushBack(queue, state) == Append(queue, state)

\* polling_service_.post([this] { TryPullResourceReport(); })
PostTryPull(posted) == TRUE

\* ------------------------------------------------------------------- Init
Init ==
    /\ max_concurrent_pulls \in 1..MaxPulls
    /\ nodes = <<>>
    /\ to_pull_queue = <<>>
    /\ inflight_pulls = 0
    /\ states = <<>>
    /\ requests = {}
    /\ received = {}
    /\ try_posted = FALSE
    /\ now = 0
    /\ fatal = FALSE
    /\ last = [n \in NodeIds |-> NoResult]
    /\ pulled = {}
    /\ fresh = {}
    /\ stale_queued = {}
    /\ discarded = {}

\* ------------------------------------------------------- membership events
\* Mutant: without the RAY_CHECK, a second add overwrites the registry entry.
NodeAddedTo_Overwrite(m, node_id) ==
    IF m.fatal THEN m
    ELSE LET state == Len(m.states) + 1 IN
         [m EXCEPT
            !.states = Append(@, [node_id |-> node_id, next_pull_time |-> Unset]),
            !.nodes = [k \in DOMAIN @ \cup {node_id} |->
                          IF k = node_id THEN state ELSE @[k]],
            !.queue = PushFront(@, state),
            !.posted = PostTryPull(@),
            !.fresh = @ \cup {node_id},
            !.stale = {r \in @ : m.states[r].node_id # node_id}]

\* HandleNodeAdded on the membership state m = [nodes, queue, states, posted,
\* fatal, fresh, stale].
NodeAddedTo(m, node_id) ==
    IF m.fatal THEN m
    ELSE IF InRegistry(m.nodes, node_id) THEN [m EXCEPT !.fatal = TRUE]
    ELSE LET state == Len(m.states) + 1 IN
         [m EXCEPT
            !.states = Append(@, [node_id |-> node_id, next_pull_time |-> Unset]),
            !.nodes = [k \in DOMAIN @ \cup {node_id} |->
                          IF k = node_id THEN state ELSE @[k]],
            !.queue = PushFront(@, state),
            !.posted = PostTryPull(@),
            !.fresh = @ \cup {node_id},
            !.stale = {r \in @ : m.states[r].node_id # node_id}]

Membership ==
    [nodes |-> nodes, queue |-> to_pull_queue, states |-> states,
     posted |-> try_posted, fatal |-> fatal, fresh |-> fresh,
     stale |-> stale_queued]

SetMembership(m) ==
    /\ nodes' = m.nodes
    /\ to_pull_queue' = m.queue
    /\ states' = m.states
    /\ try_posted' = m.posted
    /\ fatal' = m.fatal
    /\ fresh' = m.fresh
    /\ stale_queued' = m.stale
    /\ UNCHANGED <<max_concurrent_pulls, inflight_pulls, requests, received,
                   now, last, pulled, discarded>>

HandleNodeAdded(node_id) ==
    /\ ~fatal
    /\ Len(states) < MaxPullStates
    /\ Announceable(node_id)
    /\ SetMembership(NodeAddedTo(Membership, node_id))

RECURSIVE AddAll(_, _)
AddAll(m, order) ==
    IF order = <<>> THEN m
    ELSE AddAll(NodeAddedTo(m, Head(order)), Tail(order))

\* Initialize: HandleNodeAdded for every node of the start-up snapshot, in the
\* iteration order of gcs_init_data.Nodes().
Initialize(order) ==
    /\ ~fatal
    /\ Len(states) = 0
    /\ SetMembership(AddAll(Membership, order))

\* Mutant: the removal clears the whole registry.
Erase_Clear(reg, node_id) == <<>>

\* nodes_.erase(node_id)
Erase(reg, node_id) == [k \in DOMAIN reg \ {node_id} |-> reg[k]]

HandleNodeRemoved(node_id) ==
    /\ ~fatal
    /\ nodes' = Erase(nodes, node_id)
    /\ fresh' = fresh \ {node_id}
    /\ last' = [last EXCEPT ![node_id] = NoResult]
    /\ stale_queued' =
          IF InRegistry(nodes, node_id)
          THEN stale_queued \cup (StatesOf(node_id) \cap Range(to_pull_queue))
          ELSE stale_queued
    /\ UNCHANGED <<max_concurrent_pulls, to_pull_queue, inflight_pulls, states,
                   requests, received, try_posted, now, fatal, pulled,
                   discarded>>

\* ------------------------------------------------------------ the dispatch
\* Mutant: the lock is released before request_report_ is called.
PullResourceReport_Unlocked(s, state) ==
    [s EXCEPT
       !.inflight = @ + 1,
       !.requests = @ \cup
          {[state |-> state,
            initial_report |-> InitialReport(states[state].next_pull_time),
            mutex |-> "free"]}]

\* Mutant: the pull is handed to the transport without being counted.
PullResourceReport_NoCount(s, state) ==
    [s EXCEPT
       !.requests = @ \cup
          {[state |-> state,
            initial_report |-> InitialReport(states[state].next_pull_time),
            mutex |-> s.mutex]}]

\* PullResourceReport on the loop state s = [queue, inflight, requests,
\* discarded, mutex]: count the pull and hand the request to request_report_
\* (the request notes whether mutex_ is held by the caller at the call).
PullResourceReport(s, state) ==
    [s EXCEPT
       !.inflight = @ + 1,
       !.requests = @ \cup
          {[state |-> state,
            initial_report |-> InitialReport(states[state].next_pull_time),
            mutex |-> s.mutex]}]

\* Mutant: the popped object is not checked against the registry.
StillInCluster_Always(state) == TRUE

\* nodes_.count(to_pull->node_id): the popped object's node is still registered.
StillInCluster(state) == InRegistry(nodes, states[state].node_id)

\* absl::MutexLock guard(&mutex_): mutex_ from the guard to the end of its
\* scope (the handler's body).
MutexLock == "held"

\* The while loop of TryPullResourceReport, cur_time read once before it.
RECURSIVE TryPullLoop(_, _)
TryPullLoop(s, cur_time) ==
    IF HasBudget(s.inflight) /\ s.queue # <<>>
    THEN LET to_pull == Head(s.queue) IN
         IF ~IsDue(cur_time, states[to_pull].next_pull_time)
         THEN s
         ELSE LET popped == [s EXCEPT !.queue = Tail(@)] IN
              IF ~StillInCluster(to_pull)
              THEN TryPullLoop([popped EXCEPT !.discarded = @ \cup {to_pull}],
                               cur_time)
              ELSE TryPullLoop(PullResourceReport(popped, to_pull), cur_time)
    ELSE s

TryPullResourceReport ==
    LET s == TryPullLoop([queue |-> to_pull_queue, inflight |-> inflight_pulls,
                          requests |-> requests, discarded |-> discarded,
                          mutex |-> MutexLock], now)
        sent == {states[q.state].node_id : q \in s.requests \ requests}
    IN /\ to_pull_queue' = s.queue
       /\ inflight_pulls' = s.inflight
       /\ requests' = s.requests
       /\ discarded' = s.discarded
       /\ pulled' = pulled \cup sent
       /\ fresh' = fresh \ sent
       /\ last' = [n \in NodeIds |-> IF n \in sent THEN NoResult ELSE last[n]]
       /\ UNCHANGED <<max_concurrent_pulls, nodes, states, received, now, fatal,
                      stale_queued>>

\* The periodic timer of Start() fires (every 10 ms, whatever the clock reads).
Tick ==
    /\ ~fatal
    /\ TryPullResourceReport
    /\ UNCHANGED try_posted

\* A handler posted by HandleNodeAdded or NodeResourceReportReceived runs.
RunPostedTryPull ==
    /\ ~fatal
    /\ try_posted
    /\ try_posted' = FALSE
    /\ TryPullResourceReport

\* --------------------------------------------------------- the completion
\* The callback given to request_report_ runs with `status`, on the transport's
\* context: it forwards the report (if any) and posts the handler.
Complete(q, status) ==
    /\ ~fatal
    /\ q \in requests
    /\ requests' = requests \ {q}
    /\ received' = received \cup
          {[state |-> q.state, need_full_report |-> NeedFullReport(status),
            status |-> status,
            sink |-> HandleResourceReport(status, TransportContext)]}
    /\ UNCHANGED <<max_concurrent_pulls, nodes, to_pull_queue, inflight_pulls,
                   states, try_posted, now, fatal, last, pulled, fresh,
                   stale_queued, discarded>>

NodeResourceReportReceived(t) ==
    /\ ~fatal
    /\ t \in received
    /\ received' = received \ {t}
    /\ inflight_pulls' = inflight_pulls - 1
    /\ states' = [states EXCEPT ![t.state].next_pull_time =
                     NextPullTime(t.need_full_report, now)]
    /\ to_pull_queue' = PushBack(to_pull_queue, t.state)
    /\ try_posted' = PostTryPull(try_posted)
    /\ last' = IF /\ InRegistry(nodes, states[t.state].node_id)
                  /\ nodes[states[t.state].node_id] = t.state
               THEN [last EXCEPT ![states[t.state].node_id] =
                        [status |-> t.status, state |-> t.state]]
               ELSE last
    /\ UNCHANGED <<max_concurrent_pulls, nodes, requests, now, fatal, pulled,
                   fresh, stale_queued, discarded>>

\* ------------------------------------------------------------- the clock
AdvanceClock ==
    /\ ~fatal
    /\ now < MaxClock
    /\ now' = now + 1
    /\ UNCHANGED <<max_concurrent_pulls, nodes, to_pull_queue, inflight_pulls,
                   states, requests, received, try_posted, fatal, last, pulled,
                   fresh, stale_queued, discarded>>

\* Start-up snapshots: the first k node identifiers, k >= 1.
Snapshots ==
    {SubSeq(NodeOrder, 1, k) : k \in 1..Min(Len(NodeOrder), MaxPullStates)}

Next ==
    \/ \E n \in NodeIds : HandleNodeAdded(n)
    \/ \E o \in Snapshots : Initialize(o)
    \/ \E n \in NodeIds : HandleNodeRemoved(n)
    \/ Tick
    \/ RunPostedTryPull
    \/ \E q \in requests, status \in Statuses : Complete(q, status)
    \/ \E t \in received : NodeResourceReportReceived(t)
    \/ AdvanceClock

Spec == Init /\ [][Next]_vars

\* ------------------------------------------------- the three-node scenario
\* An empty cluster with max_concurrent_pulls_ = 2; the membership source adds
\* the nodes of NodeOrder, each once and in that order, and removes none.
ScenarioInit ==
    /\ Init
    /\ max_concurrent_pulls = 2

ScenarioNodeAdded ==
    /\ ~fatal
    /\ Len(states) < Len(NodeOrder)
    /\ SetMembership(NodeAddedTo(Membership, NodeOrder[Len(states) + 1]))

ScenarioNext ==
    \/ ScenarioNodeAdded
    \/ Tick
    \/ RunPostedTryPull
    \/ \E q \in requests, status \in Statuses : Complete(q, status)
    \/ \E t \in received : NodeResourceReportReceived(t)
    \/ AdvanceClock

ScenarioSpec == ScenarioInit /\ [][ScenarioNext]_vars

\* ------------------------------------------------------ the running loop
\* Time passes without bound. Only the differences next_pull_time - now are
\* read (IsDue) and written (NextPullTime), so once the clock reads MaxClock a
\* further unit of time is kept as every set next_pull_time moving one unit
\* closer (an entry that is due stays due).
TimePasses ==
    /\ ~fatal
    /\ IF now < MaxClock
       THEN now' = now + 1 /\ states' = states
       ELSE /\ now' = now
            /\ states' = [r \in DOMAIN states |->
                  [states[r] EXCEPT !.next_pull_time =
                      IF @ > 0 THEN @ - 1 ELSE @]]
    /\ UNCHANGED <<max_concurrent_pulls, nodes, to_pull_queue, inflight_pulls,
                   requests, received, try_posted, fatal, last, pulled, fresh,
                   stale_queued, discarded>>

LiveNext ==
    \/ \E n \in NodeIds : HandleNodeAdded(n)
    \/ \E n \in NodeIds : HandleNodeRemoved(n)
    \/ Tick
    \/ RunPostedTryPull
    \/ \E q \in requests, status \in Statuses : Complete(q, status)
    \/ \E t \in received : NodeResourceReportReceived(t)
    \/ TimePasses

\* The loop thread runs its timer and every posted handler, the transport
\* answers every request, and time passes; the membership source is free.
LiveSpec ==
    /\ Init
    /\ [][LiveNext]_vars
    /\ WF_vars(Tick)
    /\ WF_vars(TimePasses)
    /\ \A r \in 1..MaxPullStates :
          /\ WF_vars(\E q \in requests, status \in Statuses :
                        q.state = r /\ Complete(q, status))
          /\ WF_vars(\E t \in received :
                        t.state = r /\ NodeResourceReportReceived(t))

\* ------------------------------------------------------------ vocabulary
NodeOf(state) == states[state].node_id

Queued == Range(to_pull_queue)

\* The requests the step hands to request_report_.
Sent == requests' \ requests

\* The place of a queued object in to_pull_queue_ (the front is 1).
QueueIndex(state) == CHOOSE i \in DOMAIN to_pull_queue : to_pull_queue[i] = state

\* The requests of the step that are the first it sends for their node.
FirstSent ==
    {q \in Sent : \A p \in Sent : NodeOf(p.state) = NodeOf(q.state)
                       => QueueIndex(q.state) <= QueueIndex(p.state)}

\* The step runs the posted handler NodeResourceReportReceived(t).
Handles(t) == t \in received /\ t \notin received'

\* The step runs the posted TryPullResourceReport handler.
RunsPostedTryPull == try_posted /\ ~try_posted'

\* ------------------------------------------------------------------- C1
\* C1: in every reachable state 0 <= inflight_pulls_ <= max_concurrent_pulls_,
\* and the requests handed to the transport whose NodeResourceReportReceived
\* has not run yet (callback pending, or handler posted) number inflight_pulls_.
C1_InflightBounded ==
    /\ 0 <= inflight_pulls
    /\ inflight_pulls <= max_concurrent_pulls
    /\ Cardinality(requests) + Cardinality(received) = inflight_pulls

\* The budget is used up by a pull whose completion is posted and not yet
\* handled, while another object waits in the queue.
C1_Witness ==
    /\ inflight_pulls = max_concurrent_pulls
    /\ received # {}
    /\ to_pull_queue # <<>>

\* ------------------------------------------------------------------- C2
\* C2: at most one pull per node identifier is at the transport at any time,
\* also when the identifier was removed and added again meanwhile.
C2_OnePullPerNode ==
    \A q1, q2 \in requests :
        NodeOf(q1.state) = NodeOf(q2.state) => q1 = q2

\* ------------------------------------------------------------------- C3
\* C3: adding again a removed identifier creates an object with next_pull_time
\* unset at the front of the queue; the first dispatch of the identifier after
\* that asks for a full report; and from then on exactly one object of the
\* identifier is queued or in flight.
ReAdded(n) == Cardinality(StatesOf(n)) > 1

C3_Step ==
    /\ \A n \in NodeIds :
          (StatesOf(n) # {} /\ n \notin DOMAIN nodes /\ n \in DOMAIN nodes')
             => /\ ~fatal'
                /\ states'[nodes'[n]].next_pull_time = Unset
                /\ Head(to_pull_queue') = nodes'[n]
                /\ nodes'[n] \notin DOMAIN states
    /\ \A q \in FirstSent :
          (ReAdded(NodeOf(q.state)) /\ NodeOf(q.state) \in fresh)
             => q.initial_report
    /\ \A n \in DOMAIN nodes' :
          Cardinality({r \in DOMAIN states' : states'[r].node_id = n}) > 1
             => Cardinality({r \in DOMAIN states' :
                               /\ states'[r].node_id = n
                               /\ \/ r \in Range(to_pull_queue')
                                  \/ r \in {q.state : q \in requests'}
                                  \/ r \in {h.state : h \in received'}}) = 1

C3_ReAddedNodeIsFresh == [][C3_Step]_vars

\* ------------------------------------------------------------------- C4
\* C4 as stated: when the completion of a pull is handled after its node was
\* removed, inflight_pulls_ drops by one and the object is not pushed back.
C4_Original ==
    [][\A t \in received :
          (Handles(t) /\ ~InRegistry(nodes, NodeOf(t.state)))
             => /\ inflight_pulls' = inflight_pulls - 1
                /\ t.state \notin Range(to_pull_queue')]_vars

\* C4 amended: when the completion of a pull is handled after its node was
\* removed, inflight_pulls_ drops by exactly one and the object is pushed to
\* the back of the queue like any other completion (it leaves the queue only
\* by a later pop of TryPullResourceReport).
C4_RemovedInFlightIsRequeued ==
    [][\A t \in received :
          (Handles(t) /\ ~InRegistry(nodes, NodeOf(t.state)))
             => /\ inflight_pulls' = inflight_pulls - 1
                /\ to_pull_queue' = Append(to_pull_queue, t.state)
                /\ requests' = requests]_vars

\* An object whose node was removed while it was in flight is back in the
\* queue.
C4_Witness ==
    \E r \in Queued \ stale_queued :
        /\ ~InRegistry(nodes, NodeOf(r))
        /\ NodeOf(r) \in pulled

\* ------------------------------------------------------------------- C5
\* C5 as stated: an object queued when its node was removed (the node not
\* added again) is dropped by the next run of TryPullResourceReport.
C5_Original ==
    [][RunsPostedTryPull
          => \A r \in stale_queued \cap Queued : r \notin Range(to_pull_queue')]_vars

\* C5 amended: an object queued when its node was removed (the node not added
\* again) is never handed to the transport; it leaves the queue by the
\* lazy-deletion pop, which does not count as a pull; and a run of
\* TryPullResourceReport drops it when the run reaches it, that is unless the
\* run ends with the budget used up or with a front entry that is not due.
C5_Step ==
    \A r \in stale_queued \cap Queued :
        /\ r \notin {q.state : q \in requests'}
        /\ r \notin Range(to_pull_queue')
              => /\ r \in discarded'
                 /\ inflight_pulls' - inflight_pulls = Cardinality(Sent)
        /\ (RunsPostedTryPull /\ r \in Range(to_pull_queue'))
              => \/ ~HasBudget(inflight_pulls')
                 \/ ~IsDue(now, states[Head(to_pull_queue')].next_pull_time)

C5_StaleQueuedIsDropped == [][C5_Step]_vars

\* An object queued when its node was removed has been dropped by the pop.
C5_Witness == stale_queued \cap discarded # {}

\* ------------------------------------------------------------------- C6
\* C6: after the pull of the object registered for node n completed with a
\* failure other than "Resources not changed", the next dispatch of n (n not
\* removed meanwhile) asks for a full report.
C6_FullReportAfterFailure ==
    [][\A q \in FirstSent :
          last[NodeOf(q.state)].status = "error" => q.initial_report]_vars

\* ------------------------------------------------------------------- C7
\* C7: after the pull of the object registered for node n completed with status
\* ok, handled at time t, the next dispatch of n (n not removed meanwhile)
\* happens at a time >= t + poll_period_ms_ and asks for an incremental report.
C7_IncrementalAfterPeriod ==
    [][\A q \in FirstSent :
          LET l == last[NodeOf(q.state)] IN
          l.status = "ok"
             => /\ ~q.initial_report
                /\ now >= states[l.state].next_pull_time]_vars

\* ------------------------------------------------------------------- C8
\* C8: the first dispatch of a node identifier that was never pulled before
\* asks for a full report.
C8_FirstPullIsFull ==
    [][\A q \in Sent : NodeOf(q.state) \notin pulled => q.initial_report]_vars

\* Two nodes have had their first pull, one of them still at the transport
\* with the full-report flag.
C8_Witness ==
    /\ Cardinality(pulled) >= 2
    /\ \E q \in requests : q.initial_report /\ last[NodeOf(q.state)] = NoResult

\* ------------------------------------------------------------------- C9
\* The scenario: max_concurrent_pulls_ = 2, the nodes A, B, C added in that
\* order (so far), none removed, no pull completed yet.
C9_Scenario ==
    /\ max_concurrent_pulls = 2
    /\ \A r \in DOMAIN states : states[r].node_id = NodeOrder[r]
    /\ DOMAIN nodes = Seen
    /\ ~fatal
    /\ {NodeOf(q.state) : q \in requests} = pulled

\* C9 as stated: in the scenario C is not dispatched before a pull of A or B
\* completes.
C9_Original == C9_Scenario => "C" \notin pulled

\* C9 amended: in the scenario at most two pulls are dispatched before a pull
\* completes, exactly two once the posted TryPullResourceReport has run after
\* the third add, and the third node stays queued; the two are A and B only if
\* both were dispatched before C was added: a run that dispatches anything
\* while C is queued dispatches C, which is at the front.
C9_Step ==
    /\ C9_Scenario
          => /\ Cardinality(pulled) <= 2
             /\ inflight_pulls = Cardinality(requests)
             /\ \A r \in DOMAIN states :
                   NodeOf(r) \notin pulled => r \in Queued
             /\ (Len(states) = 3 /\ ~try_posted) => Cardinality(pulled) = 2
    /\ (C9_Scenario /\ 3 \in Queued /\ Sent # {})
          => 3 \in {q.state : q \in Sent}

C9_NewestFirstWithinBudget == [][C9_Step]_vars

\* All three were added before the first run: C and B are at the transport
\* and A waits in the queue.
C9_Witness ==
    /\ C9_Scenario
    /\ pulled = {"B", "C"}
    /\ to_pull_queue = <<1>>

\* ------------------------------------------------------------------ C10
\* C10: while the loop runs, time passes and every request completes, a node
\* that stays registered has a request at the transport again and again.
C10_PulledAgainAndAgain ==
    \A n \in NodeIds :
        []<>(\/ fatal
             \/ ~InRegistry(nodes, n)
             \/ \E q \in requests : NodeOf(q.state) = n)

\* ------------------------------------------------------------------ C11
\* C11 as stated: by the time the completion of a pull has been handled, the
\* Report Sink has been called for it exactly once if it completed ok and not
\* at all otherwise, and the call was made on the loop's context.
C11_Original ==
    [][\A t \in received :
          Handles(t)
             => t.sink = IF t.status = "ok" THEN <<LoopContext>> ELSE <<>>]_vars

\* C11 amended: the Report Sink is called exactly once for a pull that
\* completes ok and not at all for one that completes "unchanged" or with
\* another failure; the call is made by the completion callback on the
\* transport's context, before NodeResourceReportReceived is posted to the loop,
\* and the posted handler adds no call.
C11_Step ==
    /\ \A t \in received' \ received :
          /\ t.sink = IF t.status = "ok" THEN <<TransportContext>> ELSE <<>>
          /\ \E q \in requests \ requests' : q.state = t.state
    /\ \A t \in received :
          Handles(t)
             => t.sink = IF t.status = "ok" THEN <<TransportContext>> ELSE <<>>

C11_SinkOncePerOkPull == [][C11_Step]_vars

\* One pull has completed ok and another with a failure, both callbacks have
\* run and neither handler yet.
C11_Witness ==
    \E t1, t2 \in received :
        /\ t1.status = "ok" /\ Len(t1.sink) = 1
        /\ t2.status = "error" /\ Len(t2.sink) = 0

\* ------------------------------------------------------------------ C12
\* C12: when the pull of the object registered for node n completed with
\* "Resources not changed", no report was forwarded to the Report Sink, the
\* handling sets next_pull_time to the clock value read then plus
\* poll_period_ms_ (not to unset), and the next dispatch of n (n not removed
\* meanwhile) asks for an incremental report.
C12_Step ==
    /\ \A t \in received :
          (Handles(t) /\ t.status = "unchanged")
             => /\ t.sink = <<>>
                /\ states'[t.state].next_pull_time = now + PollPeriod
                /\ states'[t.state].next_pull_time # Unset
    /\ \A q \in FirstSent :
          last[NodeOf(q.state)].status = "unchanged" => ~q.initial_report

C12_UnchangedKeepsIncremental == [][C12_Step]_vars

\* ------------------------------------------------------------------ C13
\* C13: HandleNodeAdded for an identifier that is in the registry ends in the
\* fatal state and leaves the registry, the queue and the objects as they were;
\* HandleNodeAdded for an identifier that is not in the registry (and
\* Initialize on a snapshot) does not end in the fatal state; and while not
\* fatal the registry maps every identifier to the object the most recent
\* HandleNodeAdded created for it.
MostRecent(n) == CHOOSE r \in StatesOf(n) : \A k \in StatesOf(n) : k <= r

C13_Step ==
    /\ \A n \in NodeIds :
          HandleNodeAdded(n)
             => IF InRegistry(nodes, n)
                THEN /\ fatal'
                     /\ UNCHANGED <<nodes, to_pull_queue, states, inflight_pulls,
                                    requests, received>>
                ELSE /\ ~fatal'
                     /\ nodes'[n] = Len(states) + 1
                     /\ Len(states') = Len(states) + 1
    /\ (\E o \in Snapshots : Initialize(o)) => ~fatal'
    /\ (~fatal => \A n \in DOMAIN nodes : nodes[n] = MostRecent(n))'

C13_DuplicateAddIsFatal == [][C13_Step]_vars

\* The identifier was added while registered: the process has aborted and the
\* registry still maps it to the object of the first add.
C13_Witness ==
    /\ fatal
    /\ \E n \in DOMAIN nodes : StatesOf(n) = {nodes[n]}

\* ------------------------------------------------------------------ C14
\* C14: every identifier in the registry has exactly one entry, counted over
\* the places of to_pull_queue_ and the pulls in flight (callback pending or
\* handler posted) together.
EntriesOf(n) ==
    Cardinality({i \in DOMAIN to_pull_queue : NodeOf(to_pull_queue[i]) = n})
    + Cardinality({q \in requests : NodeOf(q.state) = n})
    + Cardinality({t \in received : NodeOf(t.state) = n})

C14_ExactlyOneEntryPerNode == \A n \in DOMAIN nodes : EntriesOf(n) = 1

\* ------------------------------------------------------------------ C15
\* C15: after the pull of an object completed with a failure other than
\* "Resources not changed", the TryPullResourceReport run posted by the
\* handling of that completion does not dispatch the object again.
C15_NoImmediateRetry ==
    [][RunsPostedTryPull
          => \A q \in Sent :
                LET l == last[NodeOf(q.state)] IN
                ~(l.status = "error" /\ l.state = q.state)]_vars

\* ------------------------------------------------------------------ C16
\* C16 as stated: mutex_ is not held at the moment request_report_ is called.
C16_Original == \A q \in requests : q.mutex = "free"

\* A step of a handler that takes mutex_ for its whole body.
UnderLock ==
    \/ \E n \in NodeIds : HandleNodeAdded(n) \/ HandleNodeRemoved(n)
    \/ \E o \in Snapshots : Initialize(o)
    \/ Tick
    \/ RunPostedTryPull
    \/ \E t \in received : NodeResourceReportReceived(t)

\* C16 amended: request_report_ is called with mutex_ held (the call is made
\* inside the critical section of TryPullResourceReport, which ends when the
\* run returns, before the completion); nodes_, to_pull_queue_ and
\* inflight_pulls_ change only in handlers that hold mutex_; and the completion
\* callback, which takes no lock, changes none of them.
C16_Step ==
    /\ \A q \in Sent : q.mutex = "held"
    /\ (nodes' # nodes \/ to_pull_queue' # to_pull_queue
            \/ inflight_pulls' # inflight_pulls) => UnderLock
    /\ (\E q \in requests : q \notin requests')
          => UNCHANGED <<nodes, to_pull_queue, inflight_pulls>>

C16_TransportCalledUnderLock == [][C16_Step]_vars

\* A request called under the lock is outstanding while the callback of
\* another has run.
C16_Witness ==
    /\ \E q \in requests : q.mutex = "held"
    /\ received # {}

\* ------------------------------------------------------------------ C17
\* C17: HandleNodeRemoved(n) leaves n out of the registry and every other
\* registry entry as it was; it changes neither to_pull_queue_ (contents and
\* order), inflight_pulls_, any object's next_pull_time, the outstanding
\* requests nor the posted handlers; it is never fatal; and for an n that is
\* not registered it changes nothing.
C17_Step ==
    \A n \in NodeIds :
        HandleNodeRemoved(n)
           => /\ ~InRegistry(nodes', n)
              /\ DOMAIN nodes' = DOMAIN nodes \ {n}
              /\ \A k \in DOMAIN nodes' : nodes'[k] = nodes[k]
              /\ UNCHANGED <<to_pull_queue, inflight_pulls, states, requests,
                             received, try_posted, now, max_concurrent_pulls>>
              /\ ~fatal'
              /\ ~InRegistry(nodes, n) => nodes' = nodes

C17_RemovalTouchesRegistryOnly == [][C17_Step]_vars

\* A node was removed while its pull was in flight, and another node is still
\* registered with its object in the queue.
C17_Witness ==
    /\ \E r \in InFlight : ~InRegistry(nodes, NodeOf(r))
    /\ \E k \in DOMAIN nodes : nodes[k] \in Queued

\* ------------------------------------------------------------------ C18
\* C18: with a clock that never goes back and a constant poll period, the
\* queued objects whose next_pull_time is set appear in non-decreasing order
\* of next_pull_time from the front to the back of to_pull_queue_ (objects
\* whose next_pull_time is unset may stand anywhere).
TimeAt(i) == states[to_pull_queue[i]].next_pull_time

C18_SetTimesOrdered ==
    \A i, j \in DOMAIN to_pull_queue :
        (i < j /\ TimeAt(i) # Unset /\ TimeAt(j) # Unset)
           => TimeAt(i) <= TimeAt(j)

\* Two pulls were handled at different clock values: both objects are queued
\* with set times, the earlier in front.
C18_Witness ==
    /\ Len(to_pull_queue) = 2
    /\ TimeAt(1) # Unset
    /\ TimeAt(1) < TimeAt(2)

\* ------------------------------------------------------------------ C19
\* C19: when a run of TryPullResourceReport returns, inflight_pulls_ equals
\* max_concurrent_pulls_, or to_pull_queue_ is empty, or the front object has a
\* set next_pull_time greater than the clock value the run read; the run pops
\* only from the front, and every object it pops is either handed to the
\* transport (registered, inflight_pulls_ + 1) or dropped because its
\* identifier is not registered (inflight_pulls_ unchanged).
C19_Post(queue, inflight) ==
    \/ inflight = max_concurrent_pulls
    \/ queue = <<>>
    \/ /\ states[Head(queue)].next_pull_time # Unset
       /\ states[Head(queue)].next_pull_time > now

\* A run that would pop nothing starts in a state that satisfies the
\* post-condition.
C19_Idle ==
    LET s == TryPullLoop([queue |-> to_pull_queue, inflight |-> inflight_pulls,
                          requests |-> requests, discarded |-> discarded,
                          mutex |-> MutexLock], now)
    IN s.queue = to_pull_queue => C19_Post(to_pull_queue, inflight_pulls)

C19_Step ==
    (Tick \/ RunPostedTryPull)
       => /\ C19_Post(to_pull_queue', inflight_pulls')
          /\ \E k \in 0..Len(to_pull_queue) :
                LET popped == {to_pull_queue[i] : i \in 1..k}
                    sent == {q.state : q \in Sent}
                    dropped == discarded' \ discarded
                IN /\ to_pull_queue' = SubSeq(to_pull_queue, k + 1,
                                              Len(to_pull_queue))
                   /\ popped = sent \cup dropped
                   /\ sent \cap dropped = {}
                   /\ \A r \in sent : InRegistry(nodes, NodeOf(r))
                   /\ \A r \in dropped : ~InRegistry(nodes, NodeOf(r))
                   /\ inflight_pulls' = inflight_pulls + Cardinality(sent)
                   /\ Cardinality(Sent) = Cardinality(sent)
                   /\ requests \subseteq requests'

C19_RunEndsAtBudgetEmptyOrNotDue == []C19_Idle /\ [][C19_Step]_vars

\* The posted run has returned with budget left and a front object that is
\* not due yet, after another run dropped an object of a removed node.
C19_Witness ==
    /\ ~try_posted
    /\ to_pull_queue # <<>>
    /\ inflight_pulls < max_concurrent_pulls
    /\ ~IsDue(now, TimeAt(1))
    /\ discarded # {}

\* ------------------------------------------------------------------ C20
\* C20: every PullState object ever created is exactly once in to_pull_queue_,
\* or in flight (handed to the transport, its completion not yet handled), or
\* dropped by the lazy-deletion pop, and in one of the three only; so the
\* length of to_pull_queue_ plus inflight_pulls_ plus the number of dropped
\* objects is the number of successful HandleNodeAdded calls.
PlacesOf(r) ==
    Cardinality({i \in DOMAIN to_pull_queue : to_pull_queue[i] = r})
    + Cardinality({q \in requests : q.state = r})
    + Cardinality({t \in received : t.state = r})
    + (IF r \in discarded THEN 1 ELSE 0)

C20_EveryObjectInOnePlace ==
    /\ \A r \in DOMAIN states : PlacesOf(r) = 1
    /\ Len(to_pull_queue) + inflight_pulls + Cardinality(discarded)
          = Len(states)

\* Of two objects created, one was dropped by the pop and the other is in
\* flight.
C20_Witness ==
    /\ Len(states) = 2
    /\ Cardinality(discarded) = 1
    /\ inflight_pulls = 1
    /\ to_pull_queue = <<>>

====
